---------------------------- MODULE Spec2Model ----------------------------
(***************************************************************************)
(* A model of the reverberation signal path of the repository              *)
(* (src/src/audio/*.rs) and of the generator it is seeded from             *)
(* (src/src/rnd.rs).                                                       *)
(*                                                                         *)
(* Numbers.  The program computes in f32.  The model computes in exact     *)
(* rational arithmetic (pairs <<numerator, denominator>> in lowest terms): *)
(* every sample, gain and time is a rational, and the parameters are drawn *)
(* from sets on which the program's f32 results are exactly representable  *)
(* (channel count 4, so that 1/sqrt(C) = 1/2 and -2/C = -1/2; decay gains  *)
(* that are powers of ten or of two).  f32 rounding of sums and products   *)
(* is not modelled; the u32 -> f32 conversion of a generator draw and the  *)
(* f32 -> usize truncations are.  A u32 is the pair of its 16-bit halves,  *)
(* with wrapping arithmetic on the pair.                                   *)
(***************************************************************************)
EXTENDS Integers, Sequences, FiniteSets, TLC

----------------------------------------------------------------------------
(* The state: one delay line, one feedback loop, one diffusion step, two   *)
(* reverb engines, the two mixers and one diffuser, each driven on its own *)

VARIABLES
    dl,        \* the MemoryDelay under test
    dlPanic,   \* set_sample_count has panicked
    dlIn,      \* the samples written so far, in order
    dlCfgAt,   \* the number of writes made before the last set_sample_count
    dlOp       \* the last operation: [op, arg, ret]

dlVars == <<dl, dlPanic, dlIn, dlCfgAt, dlOp>>

VARIABLES
    fb,        \* the MixedFeedback under test
    fbState,   \* "none" before MixedFeedback::new, then "ready" or "panic"
    fbArgs,    \* the arguments MixedFeedback::new was called with
    fbIns,     \* the frames passed to process, in order
    fbOuts,    \* the frames process returned, in order
    fbSums     \* the frames process wrote to the delay lines, in order

fbVars == <<fb, fbState, fbArgs, fbIns, fbOuts, fbSums>>

VARIABLES
    st,        \* the DiffusionStep under test
    stState,   \* "none" before DiffusionStep::new, then "ready" or "panic"
    stArgs,    \* the arguments DiffusionStep::new was called with, and its draws
    stIns,     \* the frames passed to process, in order
    stReads,   \* the frames process handed to the Hadamard mixer, in order
    stOuts     \* the frames process returned, in order

stVars == <<st, stState, stArgs, stIns, stReads, stOuts>>

VARIABLES
    eng        \* the BasicReverb engines: eng[e] is engine e with its history

engVars == <<eng>>

VARIABLES
    mx         \* the last call of a mixer: [op, input, output]

mxVars == <<mx>>

VARIABLES
    df         \* the Diffuser under test, with its arguments and history

dfVars == <<df>>

\* the state an operation on the delay line leaves alone
DlFrame == UNCHANGED <<fbVars, stVars, engVars, mxVars, dfVars>>

\* the state an operation on the feedback loop leaves alone
FbFrame == UNCHANGED <<dlVars, stVars, engVars, mxVars, dfVars>>

\* the state an operation on the diffusion step leaves alone
StFrame == UNCHANGED <<dlVars, fbVars, engVars, mxVars, dfVars>>

\* the state an operation on an engine leaves alone
EngFrame == UNCHANGED <<dlVars, fbVars, stVars, mxVars, dfVars>>

\* the state a call of a mixer leaves alone
MxFrame == UNCHANGED <<dlVars, fbVars, stVars, engVars, dfVars>>

\* the state an operation on the diffuser leaves alone
DfFrame == UNCHANGED <<dlVars, fbVars, stVars, engVars, mxVars>>

----------------------------------------------------------------------------
(* Rational arithmetic standing for f32 *)

RECURSIVE GCD(_, _)
GCD(a, b) == IF b = 0 THEN a ELSE GCD(b, a % b)

Abs(x) == IF x < 0 THEN -x ELSE x

\* n/d in lowest terms with a positive denominator (d # 0)
RNorm(n, d) ==
    LET g == GCD(Abs(n), Abs(d))
        s == IF d < 0 THEN -1 ELSE 1
    IN  <<(s * n) \div g, (s * d) \div g>>

Rat(k)     == <<k, 1>>
Zero       == Rat(0)
One        == Rat(1)
RAdd(x, y) == RNorm(x[1] * y[2] + y[1] * x[2], x[2] * y[2])
RSub(x, y) == RNorm(x[1] * y[2] - y[1] * x[2], x[2] * y[2])
RMul(x, y) == RNorm(x[1] * y[1], x[2] * y[2])
RDiv(x, y) == RNorm(x[1] * y[2], x[2] * y[1])
RNeg(x)    == <<-x[1], x[2]>>
RLt(x, y)  == x[1] * y[2] < y[1] * x[2]
RLe(x, y)  == x[1] * y[2] <= y[1] * x[2]
RAbs(x)    == <<Abs(x[1]), x[2]>>
\* `x as usize` for a finite f32 x: truncation toward zero, saturating at 0
RTrunc(x)  == IF x[1] < 0 THEN 0 ELSE x[1] \div x[2]

----------------------------------------------------------------------------
(* u32 with wrapping arithmetic: src/src/rnd.rs *)

RECURSIVE Pow2(_)
Pow2(k) == IF k = 0 THEN 1 ELSE 2 * Pow2(k - 1)

\* a u32 is the pair <<hi, lo>> of its 16-bit halves
H == Pow2(16)

U32(hi, lo) == <<hi, lo>>

RECURSIVE Xor16(_, _)
Xor16(a, b) ==
    IF a = 0 THEN b
    ELSE IF b = 0 THEN a
    ELSE ((a + b) % 2) + 2 * Xor16(a \div 2, b \div 2)

RECURSIVE Or16(_, _)
Or16(a, b) ==
    IF a = 0 THEN b
    ELSE IF b = 0 THEN a
    ELSE (IF (a % 2) + (b % 2) > 0 THEN 1 ELSE 0) + 2 * Or16(a \div 2, b \div 2)

\* (a * b) mod 2^16 for 16-bit a, b, without leaving 31 bits
MulLo16(a, b) == (a * (b % 256) + ((a * (b \div 256)) % 256) * 256) % H

\* Wrapping(a) + Wrapping(b)
WAdd(a, b) ==
    LET lo == a[2] + b[2]
        hi == a[1] + b[1] + lo \div H
    IN  U32(hi % H, lo % H)

WXor(a, b) == U32(Xor16(a[1], b[1]), Xor16(a[2], b[2]))
WOr(a, b)  == U32(Or16(a[1], b[1]), Or16(a[2], b[2]))

\* a >> k, for 0 < k < 16
WShr(a, k) ==
    U32(a[1] \div Pow2(k), a[2] \div Pow2(k) + (a[1] % Pow2(k)) * Pow2(16 - k))

\* Wrapping(a) * Wrapping(b)
WMul(a, b) ==
    LET t    == (a[2] \div 256) * b[2]            \* high byte of a.lo times b.lo
        low  == (t % 256) * 256 + (a[2] % 256) * b[2]
        hi   == t \div 256 + low \div H + MulLo16(a[1], b[2]) + MulLo16(a[2], b[1])
    IN  U32(hi % H, low % H)

\* a comparison that is also true of equal values
WGe(a, b) == a[1] > b[1] \/ (a[1] = b[1] /\ a[2] >= b[2])

\* a > b on u32
WGt(a, b) == a[1] > b[1] \/ (a[1] = b[1] /\ a[2] > b[2])

U32Max == U32(65535, 65535)
\* u32::MAX / 2
U32MaxHalf == U32(32767, 65535)

\* Rnd::new(seed): the generator's state is the seed
RndNew(seed) == seed

\* Rnd::next(): [state |-> the new state, value |-> the draw]
RndNext(s) ==
    LET z0 == WAdd(s, U32(27947, 31221))            \* + 0x6D2B79F5
        z1 == WMul(WXor(z0, WShr(z0, 15)), WOr(z0, U32(0, 1)))
        z2 == WXor(z1, WAdd(z1, WMul(WXor(z1, WShr(z1, 7)),
                                     WOr(z1, U32(0, 61)))))
    IN  [state |-> z0, value |-> WXor(z2, WShr(z2, 14))]

RECURSIVE RndDraws(_, _)
\* the first k draws of a generator in state s, in order
RndDraws(s, k) ==
    IF k = 0 THEN <<>>
    ELSE LET r == RndNext(s) IN <<r.value>> \o RndDraws(r.state, k - 1)

RECURSIVE RndAfter(_, _)
\* the generator's state after k draws
RndAfter(s, k) == IF k = 0 THEN s ELSE RndAfter(RndNext(s).state, k - 1)

----------------------------------------------------------------------------
(* MemoryDelay<N>: src/src/audio/delay.rs *)

\* the capacity N of every delay line (a const generic of the program)
N == 4

\* a line that starts with a sample in its first slot
MemoryDelayDefaultNoisy ==
    [buffer |-> [i \in 0..(N - 1) |-> IF i = 0 THEN One ELSE Zero],
     sample_count |-> N, index |-> 0]

\* MemoryDelay::default()
MemoryDelayDefault ==
    [buffer |-> [i \in 0..(N - 1) |-> Zero], sample_count |-> N, index |-> 0]

\* a bound check that also rejects the full capacity
SetSampleCountPanicsAtN(n) == n >= N

\* set_sample_count(n) panics
SetSampleCountPanics(n) == n > N

\* set_sample_count(n), when it does not panic
SetSampleCount(d, n) == [d EXCEPT !.sample_count = n]

\* a read of the slot behind the cursor
DelayReadBehind(d) ==
    d.buffer[IF d.index = 0 THEN (IF d.sample_count = 0 THEN 0 ELSE d.sample_count - 1)
                            ELSE d.index - 1]

\* a read of the slot ahead of the cursor
DelayReadAhead(d) ==
    d.buffer[IF d.index + 1 >= d.sample_count THEN 0 ELSE d.index + 1]

\* read()
DelayRead(d) == d.buffer[d.index]

\* a write that wraps one slot late
DelayWriteWrapLate(d, v) ==
    [d EXCEPT !.buffer[d.index] = v,
              !.index = IF d.index + 1 > d.sample_count THEN 0 ELSE d.index + 1]

\* a write that advances the cursor first and stores under the new cursor
DelayWriteAdvanceFirst(d, v) ==
    LET next == IF d.index + 1 >= d.sample_count THEN 0 ELSE d.index + 1
    IN  [d EXCEPT !.buffer[next] = v, !.index = next]

\* write(v)
DelayWrite(d, v) ==
    [d EXCEPT !.buffer[d.index] = v,
              !.index = IF d.index + 1 >= d.sample_count THEN 0 ELSE d.index + 1]

----------------------------------------------------------------------------
(* Frames of C channels and the two mixers:                                *)
(* src/src/audio/hadamard.rs, src/src/audio/householder.rs                 *)

\* the channel count C (a const generic of the program; the mixers' tests
\* use four channels)
C == 4

Chan == 0..(C - 1)

ZeroFrame == [i \in Chan |-> Zero]

\* the number of channels of a frame
FrameLen(samples) == Cardinality(DOMAIN samples)

\* a pass that puts the difference where the sum belongs
ButterflySwapped(samples, stride) ==
    [k \in DOMAIN samples |->
        IF (k \div stride) % 2 = 0
        THEN RSub(samples[k], samples[k + stride])
        ELSE RAdd(samples[k - stride], samples[k])]

\* one pass of the butterfly: the pairs (k, k + stride) of every block of
\* 2 * stride channels become (a + b, a - b)
Butterfly(samples, stride) ==
    [k \in DOMAIN samples |->
        IF (k \div stride) % 2 = 0
        THEN RAdd(samples[k], samples[k + stride])
        ELSE RSub(samples[k - stride], samples[k])]

RECURSIVE ButterflyFrom(_, _)
\* the passes for stride, 2 * stride, ... while stride < C
ButterflyFrom(samples, stride) ==
    IF stride >= FrameLen(samples) THEN samples
    ELSE ButterflyFrom(Butterfly(samples, stride), stride * 2)

\* a pass whose blocks start every stride channels
PassPairsDense(c, stride) ==
    LET blocks == (c + stride - 1) \div stride
    IN  [p \in 1..(blocks * stride) |->
            LET i == ((p - 1) \div stride) * stride
                j == (p - 1) % stride
            IN  <<i + j, i + j + stride>>]

\* the pairs of indices <<i + j, i + j + stride>> one pass of the loops of
\* transform_hadamard visits on C = c channels, in the order of the loops:
\* i over (0..C).step_by(stride * 2), j over 0..stride
PassPairs(c, stride) ==
    LET blocks == (c + 2 * stride - 1) \div (2 * stride)
    IN  [p \in 1..(blocks * stride) |->
            LET i == ((p - 1) \div stride) * 2 * stride
                j == (p - 1) % stride
            IN  <<i + j, i + j + stride>>]

RECURSIVE PassFrom(_, _, _)
\* the iterations p, p + 1, ... of one pass: [panic |-> an index was out of
\* bounds, samples |-> the frame afterwards, accesses |-> the pairs of
\* indices accessed, the one that panicked included]
PassFrom(samples, pairs, p) ==
    IF p > Len(pairs) THEN [panic |-> FALSE, samples |-> samples, accesses |-> <<>>]
    ELSE LET a == pairs[p][1]
             b == pairs[p][2]
         IN  IF a >= FrameLen(samples) \/ b >= FrameLen(samples)
             THEN [panic |-> TRUE, samples |-> samples, accesses |-> <<pairs[p]>>]
             ELSE LET next == PassFrom([samples EXCEPT
                                           ![a] = RAdd(samples[a], samples[b]),
                                           ![b] = RSub(samples[a], samples[b])],
                                       pairs, p + 1)
                  IN  [panic    |-> next.panic,
                       samples  |-> next.samples,
                       accesses |-> <<pairs[p]>> \o next.accesses]

RECURSIVE HadamardLoopsFrom(_, _)
\* the passes of `while stride < C` from a stride on: [panic, samples,
\* passes |-> the accesses of each pass begun]
HadamardLoopsFrom(samples, stride) ==
    IF stride >= FrameLen(samples)
    THEN [panic |-> FALSE, samples |-> samples, passes |-> <<>>]
    ELSE LET r == PassFrom(samples, PassPairs(FrameLen(samples), stride), 1)
         IN  IF r.panic
             THEN [panic |-> TRUE, samples |-> r.samples, passes |-> <<r.accesses>>]
             ELSE LET rest == HadamardLoopsFrom(r.samples, stride * 2)
                  IN  [panic   |-> rest.panic,
                       samples |-> rest.samples,
                       passes  |-> <<r.accesses>> \o rest.passes]

\* the loops of transform_hadamard, index by index, started at stride 1
HadamardLoops(samples) == HadamardLoopsFrom(samples, 1)

\* a factor of 1 / C
FactorReciprocal(c) == <<1, c>>

\* factor::<C>() = sqrt(1 / C), for a channel count that is a square
Factor(c) == CHOOSE r \in {<<1, k>> : k \in 1..c} : RMul(r, r) = <<1, c>>

\* a transform that leaves the scaling out
TransformHadamardUnscaled(samples) == ButterflyFrom(samples, 1)

\* transform_hadamard(samples)
TransformHadamard(samples) ==
    LET mixed == ButterflyFrom(samples, 1)
        f     == Factor(FrameLen(samples))
    IN  [k \in DOMAIN samples |-> RMul(mixed[k], f)]

RECURSIVE FrameSumFromSecond(_, _)
\* a sum that leaves samples[0] out
FrameSumFromSecond(samples, n) ==
    IF n <= 1 THEN Zero ELSE RAdd(FrameSumFromSecond(samples, n - 1), samples[n - 1])

RECURSIVE FrameSum(_, _)
\* samples[0] + ... + samples[n - 1]
FrameSum(samples, n) ==
    IF n = 0 THEN Zero ELSE RAdd(FrameSum(samples, n - 1), samples[n - 1])

\* a multiplier of -1 / C
MultiplierSingle(c) == RDiv(Rat(-1), Rat(c))

\* multiplier::<C>() = -2 / C
Multiplier(c) == RDiv(Rat(-2), Rat(c))

\* a transform that leaves channel 0 as it was
TransformHouseholderButFirst(samples) ==
    LET k == RMul(FrameSum(samples, FrameLen(samples)), Multiplier(FrameLen(samples)))
    IN  [i \in DOMAIN samples |-> IF i = 0 THEN samples[i] ELSE RAdd(samples[i], k)]

\* transform_householder(samples)
TransformHouseholder(samples) ==
    LET k == RMul(FrameSum(samples, FrameLen(samples)), Multiplier(FrameLen(samples)))
    IN  [i \in DOMAIN samples |-> RAdd(samples[i], k)]

----------------------------------------------------------------------------
(* MixedFeedback<D, C>: src/src/audio/feedback.rs *)

\* 2.0.powf(r) for r = i / C, to three decimals
Powf2(r) ==
    CASE r = <<0, 1>> -> One
      [] r = <<1, 4>> -> RNorm(1189, 1000)
      [] r = <<1, 2>> -> RNorm(1414, 1000)
      [] r = <<3, 4>> -> RNorm(1682, 1000)

\* a construction that gives every line the length of the first
FeedbackSampleCountEven(sample_rate, delay_secs, i) ==
    RTrunc(RMul(Rat(sample_rate), delay_secs)) + 1

\* the sample count MixedFeedback::new asks of channel i's delay line
FeedbackSampleCount(sample_rate, delay_secs, i) ==
    LET sample_count == RMul(Rat(sample_rate), delay_secs)
        r            == RDiv(Rat(i), Rat(C))
        delay_size   == RTrunc(RMul(Powf2(r), sample_count))
    IN  delay_size + 1

\* a construction that checks the first line only
MixedFeedbackNewPanicsFirstLine(sample_rate, delay_secs) ==
    SetSampleCountPanics(FeedbackSampleCount(sample_rate, delay_secs, 0))

\* MixedFeedback::new panics (in a set_sample_count)
MixedFeedbackNewPanics(sample_rate, delay_secs) ==
    \E i \in Chan : SetSampleCountPanics(FeedbackSampleCount(sample_rate, delay_secs, i))

\* MixedFeedback::new(sample_rate, delay_secs, decay), when it does not panic
MixedFeedbackNew(sample_rate, delay_secs, decay) ==
    [delays |-> [i \in Chan |->
                    SetSampleCount(MemoryDelayDefault,
                                   FeedbackSampleCount(sample_rate, delay_secs, i))],
     decay  |-> decay]

\* a loop that reads each line one slot past its cursor
FeedbackDelayedAhead(f) ==
    [i \in Chan |->
        f.delays[i].buffer[(f.delays[i].index + 1) % f.delays[i].sample_count]]

\* the frame MixedFeedback::process reads from the delay lines
FeedbackDelayed(f) == [i \in Chan |-> DelayRead(f.delays[i])]

\* a loop that divides by the decay gain where the code multiplies
FeedbackSumsDivided(f, input) ==
    [i \in Chan |-> RAdd(input[i], RDiv(FeedbackDelayed(f)[i], f.decay))]

\* the frame MixedFeedback::process writes to the delay lines
FeedbackSums(f, input) ==
    LET delayed == FeedbackDelayed(f)
        mixed   == delayed                          \* delayed.clone()
        householder == TransformHouseholder(delayed) \* delayed, transformed in place
    IN  [i \in Chan |-> RAdd(input[i], RMul(mixed[i], f.decay))]

\* a loop that returns the frame it has just written
MixedFeedbackProcessEcho(f, input) ==
    LET sums == FeedbackSums(f, input)
    IN  [node |-> [f EXCEPT !.delays = [i \in Chan |-> DelayWrite(f.delays[i], sums[i])]],
         out  |-> sums]

\* MixedFeedback::process(input): [node |-> the loop afterwards, out |-> the frame returned]
MixedFeedbackProcess(f, input) ==
    LET sums == FeedbackSums(f, input)
    IN  [node |-> [f EXCEPT !.delays = [i \in Chan |-> DelayWrite(f.delays[i], sums[i])]],
         out  |-> FeedbackDelayed(f)]

----------------------------------------------------------------------------
(* DiffusionStep<D, C> and Diffuser<D, C, S>: src/src/audio/diffusion.rs *)

RECURSIVE BitLen(_)
\* the number of significant bits of k
BitLen(k) == IF k = 0 THEN 0 ELSE 1 + BitLen(k \div 2)

\* `n as f32` for a u32 n: [m, e] with value m * 2^e, n rounded to 24
\* significant bits, ties to even
U32ToF32(n) ==
    IF n[1] < 256
    THEN [m |-> n[1] * H + n[2], e |-> 0]
    ELSE LET e    == BitLen(n[1]) - 8
             kept == n[1] * Pow2(16 - e) + n[2] \div Pow2(e)
             rem  == n[2] % Pow2(e)
             half == Pow2(e - 1)
             up   == rem > half \/ (rem = half /\ kept % 2 = 1)
         IN  [m |-> IF up THEN kept + 1 ELSE kept, e |-> e]

\* (range * (n as f32 / u32::MAX as f32)) as usize, where u32::MAX as f32
\* is 2^32: the floor of range * m * 2^e / 2^32, divided in two steps to
\* stay within 31 bits
ScaleByDraw(range, n) ==
    LET f == U32ToF32(n)
    IN  IF range[1] < 0 THEN 0
        ELSE ((range[1] * f.m) \div H) \div (Pow2(16 - f.e) * range[2])

\* delay_samples, lo and hi of channel i in DiffusionStep::new
StepDelaySamples(sample_rate, delay_range_secs) ==
    RMul(delay_range_secs, Rat(sample_rate))
StepLo(sample_rate, delay_range_secs, i) ==
    RDiv(RMul(StepDelaySamples(sample_rate, delay_range_secs), Rat(i)), Rat(C))
StepHi(sample_rate, delay_range_secs, i) ==
    RDiv(RMul(StepDelaySamples(sample_rate, delay_range_secs), RAdd(Rat(i), One)), Rat(C))

\* delay_size of channel i in DiffusionStep::new, n being the channel's draw
StepDelaySize(sample_rate, delay_range_secs, i, n) ==
    LET lo    == StepLo(sample_rate, delay_range_secs, i)
        hi    == StepHi(sample_rate, delay_range_secs, i)
        range == RSub(hi, lo)
    IN  ScaleByDraw(range, n)

\* DiffusionStep::new draws 2 * C values: C delay draws, then C polarity draws
StepDrawCount == 2 * C

\* DiffusionStep::new panics (in a set_sample_count)
DiffusionStepNewPanics(sample_rate, delay_range_secs, draws) ==
    \E i \in Chan :
        SetSampleCountPanics(StepDelaySize(sample_rate, delay_range_secs, i, draws[i + 1]) + 1)

\* a construction that draws each channel's delay and polarity in turn
DiffusionStepNewInterleaved(sample_rate, delay_range_secs, draws) ==
    [delays |-> [i \in Chan |->
                    SetSampleCount(MemoryDelayDefault,
                        StepDelaySize(sample_rate, delay_range_secs, i, draws[2 * i + 1]) + 1)],
     flip_polarity |-> [i \in Chan |-> WGt(draws[2 * i + 2], U32MaxHalf)]]

\* DiffusionStep::new(sample_rate, delay_range_secs, rnd), when it does not
\* panic; draws are the values rnd.next() returns, in order
DiffusionStepNew(sample_rate, delay_range_secs, draws) ==
    [delays |-> [i \in Chan |->
                    SetSampleCount(MemoryDelayDefault,
                        StepDelaySize(sample_rate, delay_range_secs, i, draws[i + 1]) + 1)],
     flip_polarity |-> [i \in Chan |-> WGt(draws[C + i + 1], U32MaxHalf)]]

\* the delay lines of a step after each has been written its input sample
StepWritten(step, input) == [i \in Chan |-> DelayWrite(step.delays[i], input[i])]

\* a step that reads each line before writing it
StepDelayedReadFirst(step, input) == [i \in Chan |-> DelayRead(step.delays[i])]

\* the frame a step hands to the Hadamard mixer: each line written, then read
StepDelayed(step, input) == [i \in Chan |-> DelayRead(StepWritten(step, input)[i])]

\* a step that turns its polarity flags over at every call
DiffusionStepProcessReflipped(step, input) ==
    LET mixed == TransformHadamard(StepDelayed(step, input))
    IN  [node |-> [step EXCEPT !.delays = StepWritten(step, input),
                               !.flip_polarity = [i \in Chan |-> ~step.flip_polarity[i]]],
         out  |-> [i \in Chan |-> IF step.flip_polarity[i]
                                  THEN RMul(mixed[i], Rat(-1))
                                  ELSE mixed[i]]]

\* DiffusionStep::process(input): [node |-> the step afterwards, out |-> the frame returned]
DiffusionStepProcess(step, input) ==
    LET mixed == TransformHadamard(StepDelayed(step, input))
    IN  [node |-> [step EXCEPT !.delays = StepWritten(step, input)],
         out  |-> [i \in Chan |-> IF step.flip_polarity[i]
                                  THEN RMul(mixed[i], Rat(-1))
                                  ELSE mixed[i]]]

\* the number S of diffusion steps (a const generic of the program)
S == 2

RECURSIVE DiffuserNewFromLate(_, _, _, _)
\* a construction that halves the time budget after each step is built
DiffuserNewFromLate(sample_rate, seconds, rnd, k) ==
    IF k >= S THEN [panic |-> FALSE, steps |-> <<>>, budgets |-> <<>>, rnd |-> rnd]
    ELSE LET halved == RMul(seconds, RNorm(1, 2))
             draws  == RndDraws(rnd, StepDrawCount)
         IN  IF DiffusionStepNewPanics(sample_rate, seconds, draws)
             THEN [panic |-> TRUE, steps |-> <<>>, budgets |-> <<seconds>>, rnd |-> rnd]
             ELSE LET rest == DiffuserNewFromLate(sample_rate, halved,
                                                  RndAfter(rnd, StepDrawCount), k + 1)
                  IN  [panic |-> rest.panic,
                       steps |-> <<DiffusionStepNew(sample_rate, seconds, draws)>> \o rest.steps,
                       budgets |-> <<seconds>> \o rest.budgets,
                       rnd   |-> rest.rnd]

RECURSIVE DiffuserNewFrom(_, _, _, _)
\* the steps k, k + 1, ... of Diffuser::new: the time budget is halved
\* before each step is built, and the generator is handed from step to step.
\* [panic, steps, budgets, rnd]: whether a step panicked, the steps built,
\* the time budget DiffusionStep::new was called with for each step, the
\* generator afterwards
DiffuserNewFrom(sample_rate, seconds, rnd, k) ==
    IF k >= S THEN [panic |-> FALSE, steps |-> <<>>, budgets |-> <<>>, rnd |-> rnd]
    ELSE LET halved == RMul(seconds, RNorm(1, 2))
             draws  == RndDraws(rnd, StepDrawCount)
         IN  IF DiffusionStepNewPanics(sample_rate, halved, draws)
             THEN [panic |-> TRUE, steps |-> <<>>, budgets |-> <<halved>>, rnd |-> rnd]
             ELSE LET rest == DiffuserNewFrom(sample_rate, halved,
                                              RndAfter(rnd, StepDrawCount), k + 1)
                  IN  [panic |-> rest.panic,
                       steps |-> <<DiffusionStepNew(sample_rate, halved, draws)>> \o rest.steps,
                       budgets |-> <<halved>> \o rest.budgets,
                       rnd   |-> rest.rnd]

\* Diffuser::new(sample_rate, seconds, rnd)
DiffuserNew(sample_rate, seconds, rnd) == DiffuserNewFrom(sample_rate, seconds, rnd, 0)

RECURSIVE DiffuserProcessFromReversed(_, _, _)
\* a diffuser that runs its steps last to first
DiffuserProcessFromReversed(d, input, k) ==
    IF k > Len(d.steps) THEN [node |-> d, out |-> input]
    ELSE LET m == Len(d.steps) - k + 1
             r == DiffusionStepProcess(d.steps[m], input)
         IN  DiffuserProcessFromReversed([d EXCEPT !.steps[m] = r.node], r.out, k + 1)

RECURSIVE DiffuserProcessFrom(_, _, _)
\* the steps k, k + 1, ... of Diffuser::process, each fed the frame the
\* previous one returned
DiffuserProcessFrom(d, input, k) ==
    IF k > Len(d.steps) THEN [node |-> d, out |-> input]
    ELSE LET r == DiffusionStepProcess(d.steps[k], input)
         IN  DiffuserProcessFrom([d EXCEPT !.steps[k] = r.node], r.out, k + 1)

\* Diffuser::process(input): [node |-> the diffuser afterwards, out |-> the frame returned]
DiffuserProcess(d, input) == DiffuserProcessFrom(d, input, 1)

----------------------------------------------------------------------------
(* BasicReverb<D, C, S>: src/src/audio/reverb.rs *)

\* the seed of every engine's generator: Rnd::new(82734)
BasicReverbSeed == U32(1, 17198)

\* a generator seeded with the number of engines built so far
BasicReverbRndCounted ==
    RndNew(U32(0, Cardinality({e \in DOMAIN eng : eng[e].state # "none"})))

\* let mut rnd = Rnd::new(82734)
BasicReverbRnd == RndNew(BasicReverbSeed)

RECURSIVE Pow10(_)
Pow10(k) == IF k = 0 THEN 1 ELSE 10 * Pow10(k - 1)

\* 10.0_f32.powf(x), for a whole x
Powf10(x) ==
    CASE x[2] = 1 /\ x[1] >= 0 -> Rat(Pow10(x[1]))
      [] x[2] = 1 /\ x[1] < 0  -> RNorm(1, Pow10(-x[1]))

\* the decay BasicReverb::new derives from the room size and RT60
BasicReverbDecay(room_size_secs, rt60) ==
    LET typical_loop_secs == RMul(room_size_secs, RNorm(3, 2))
        loops_per_rt_60   == RDiv(rt60, typical_loop_secs)
        db_per_cycle      == RDiv(Rat(-60), loops_per_rt_60)
    IN  Powf10(RMul(db_per_cycle, RNorm(5, 100)))

\* BasicReverb::new(sample_rate, room_size_secs, rt60, dry, wet):
\* [panic, node]: whether the construction panicked, the engine built
BasicReverbNew(sample_rate, room_size_secs, rt60, dry, wet) ==
    LET diffuser == DiffuserNew(sample_rate, room_size_secs, BasicReverbRnd)
        decay    == BasicReverbDecay(room_size_secs, rt60)
    IN  IF diffuser.panic \/ MixedFeedbackNewPanics(sample_rate, room_size_secs)
        THEN [panic |-> TRUE, node |-> <<>>]
        ELSE [panic |-> FALSE,
              node  |-> [diffuser |-> [steps |-> diffuser.steps],
                         feedback |-> MixedFeedbackNew(sample_rate, room_size_secs, decay),
                         dry      |-> dry,
                         wet      |-> wet]]

\* a mix that leaves the wet gain out
MixDryWetUngained(input, mixed, dry, wet) ==
    [i \in Chan |-> RAdd(RMul(input[i], dry), mixed[i])]

\* the output frame: input[i] * dry + mixed[i] * wet
MixDryWet(input, mixed, dry, wet) ==
    [i \in Chan |-> RAdd(RMul(input[i], dry), RMul(mixed[i], wet))]

\* an engine that runs the feedback loop on the input and the diffuser after it
BasicReverbProcessFeedbackFirst(r, input) ==
    LET f == MixedFeedbackProcess(r.feedback, input)
        d == DiffuserProcess(r.diffuser, f.out)
    IN  [node    |-> [r EXCEPT !.diffuser = d.node, !.feedback = f.node],
         out     |-> [i \in Chan |-> RAdd(RMul(input[i], r.dry), RMul(d.out[i], r.wet))],
         diffuse |-> d.out,
         fed     |-> f.out]

\* BasicReverb::process(input): [node |-> the engine afterwards, out |-> the
\* frame returned, diffuse and fed |-> the frames the diffuser and the
\* feedback loop returned]
BasicReverbProcess(r, input) ==
    LET d == DiffuserProcess(r.diffuser, input)
        f == MixedFeedbackProcess(r.feedback, d.out)
    IN  [node    |-> [r EXCEPT !.diffuser = d.node, !.feedback = f.node],
         out     |-> MixDryWet(input, f.out, r.dry, r.wet),
         diffuse |-> d.out,
         fed     |-> f.out]

----------------------------------------------------------------------------
(* One delay line driven through its three operations *)

\* the samples written to the delay line under test
MaxWrites == 5
DlSamples == {Rat(1), Rat(2)}

DlInit ==
    /\ dl = MemoryDelayDefault
    /\ dlPanic = FALSE
    /\ dlIn = <<>>
    /\ dlCfgAt = 0
    /\ dlOp = [op |-> "new", arg |-> Zero, ret |-> Zero]

DlSetSampleCount(n) ==
    /\ ~dlPanic
    /\ IF SetSampleCountPanics(n)
       THEN /\ dlPanic' = TRUE
            /\ UNCHANGED dl
       ELSE /\ dl' = SetSampleCount(dl, n)
            /\ UNCHANGED dlPanic
    /\ dlCfgAt' = Len(dlIn)
    /\ dlOp' = [op |-> "set_sample_count", arg |-> n, ret |-> Zero]
    /\ UNCHANGED dlIn
    /\ DlFrame

DlWrite(v) ==
    /\ ~dlPanic
    /\ Len(dlIn) < MaxWrites
    /\ dl' = DelayWrite(dl, v)
    /\ dlIn' = Append(dlIn, v)
    /\ dlOp' = [op |-> "write", arg |-> v, ret |-> Zero]
    /\ UNCHANGED <<dlPanic, dlCfgAt>>
    /\ DlFrame

\* write(v) and then read(), the order DiffusionStep::process uses
DlWriteRead(v) ==
    /\ ~dlPanic
    /\ Len(dlIn) < MaxWrites
    /\ dl' = DelayWrite(dl, v)
    /\ dlIn' = Append(dlIn, v)
    /\ dlOp' = [op |-> "write_read", arg |-> v, ret |-> DelayRead(DelayWrite(dl, v))]
    /\ UNCHANGED <<dlPanic, dlCfgAt>>
    /\ DlFrame

\* read() and then write(v), the order MixedFeedback::process uses
DlReadWrite(v) ==
    /\ ~dlPanic
    /\ Len(dlIn) < MaxWrites
    /\ dl' = DelayWrite(dl, v)
    /\ dlIn' = Append(dlIn, v)
    /\ dlOp' = [op |-> "read_write", arg |-> v, ret |-> DelayRead(dl)]
    /\ UNCHANGED <<dlPanic, dlCfgAt>>
    /\ DlFrame

DlNext ==
    \/ \E n \in 0..(N + 1) : DlSetSampleCount(n)
    \/ \E v \in DlSamples : DlWrite(v)
    \/ \E v \in DlSamples : DlWriteRead(v)
    \/ \E v \in DlSamples : DlReadWrite(v)

----------------------------------------------------------------------------
(* One feedback loop, constructed and then fed frames *)

\* the arguments MixedFeedback::new is called with
FbRates  == {1, 2}
FbSecs   == {Rat(1), Rat(2)}
FbDecays == {Zero, RNorm(1, 2)}

\* the frame that is v on channel j and zero elsewhere
Impulse(j, v) == [i \in Chan |-> IF i = j THEN v ELSE Zero]

\* the frame 1, 2, ..., C
Ramp == [i \in Chan |-> Rat(i + 1)]

\* the frames fed: non-zero frames in the first MaxLoud calls, silence after
MaxLoud == 3
LoudFrames == {ZeroFrame, Ramp} \cup {Impulse(j, One) : j \in Chan}
MaxFbCalls == 2 * N + 1
FbInputs(k) == IF k < MaxLoud THEN LoudFrames ELSE {ZeroFrame}

NoNode == [delays |-> <<>>, decay |-> Zero]

FbInit ==
    /\ fb = NoNode
    /\ fbState = "none"
    /\ fbArgs = [sample_rate |-> 0, delay_secs |-> Zero, decay |-> Zero]
    /\ fbIns = <<>>
    /\ fbOuts = <<>>
    /\ fbSums = <<>>

FbNew(sample_rate, delay_secs, decay) ==
    /\ fbState = "none"
    /\ IF MixedFeedbackNewPanics(sample_rate, delay_secs)
       THEN /\ fbState' = "panic"
            /\ UNCHANGED fb
       ELSE /\ fbState' = "ready"
            /\ fb' = MixedFeedbackNew(sample_rate, delay_secs, decay)
    /\ fbArgs' = [sample_rate |-> sample_rate, delay_secs |-> delay_secs, decay |-> decay]
    /\ UNCHANGED <<fbIns, fbOuts, fbSums>>
    /\ FbFrame

FbProcess(input) ==
    /\ fbState = "ready"
    /\ Len(fbIns) < MaxFbCalls
    /\ LET r == MixedFeedbackProcess(fb, input)
       IN  /\ fb' = r.node
           /\ fbOuts' = Append(fbOuts, r.out)
    /\ fbIns' = Append(fbIns, input)
    /\ fbSums' = Append(fbSums, FeedbackSums(fb, input))
    /\ UNCHANGED <<fbState, fbArgs>>
    /\ FbFrame

FbNext ==
    \/ \E sr \in FbRates, secs \in FbSecs, decay \in FbDecays : FbNew(sr, secs, decay)
    \/ \E input \in FbInputs(Len(fbIns)) : FbProcess(input)

----------------------------------------------------------------------------
(* One diffusion step, constructed from any draws and then fed frames *)

\* the arguments DiffusionStep::new is called with
StepRates == {8}
StepSecs  == {RNorm(1, 2), Rat(1), Rat(2)}

\* the values the generator returns: for a delay 0, 2^31 and u32::MAX; for
\* a polarity the two sides of u32::MAX / 2
DelayDraws == {U32(0, 0), U32(32768, 0), U32(65535, 65535)}
FlipDraws  == {U32(32767, 65535), U32(32768, 0)}
StepDraws == {dd \o fd : dd \in [1..C -> DelayDraws], fd \in [1..C -> FlipDraws]}

\* the frames fed in call t: every channel carries t or -t, so that a
\* sample names the call that wrote it
MaxStepCalls == 3
StepInputs(t) == {[i \in Chan |-> Rat(t)], [i \in Chan |-> Rat(-t)]}

StInit ==
    /\ st = [delays |-> <<>>, flip_polarity |-> <<>>]
    /\ stState = "none"
    /\ stArgs = [sample_rate |-> 0, delay_range_secs |-> Zero, draws |-> <<>>]
    /\ stIns = <<>>
    /\ stReads = <<>>
    /\ stOuts = <<>>

StNew(sample_rate, delay_range_secs, draws) ==
    /\ stState = "none"
    /\ IF DiffusionStepNewPanics(sample_rate, delay_range_secs, draws)
       THEN /\ stState' = "panic"
            /\ UNCHANGED st
       ELSE /\ stState' = "ready"
            /\ st' = DiffusionStepNew(sample_rate, delay_range_secs, draws)
    /\ stArgs' = [sample_rate |-> sample_rate, delay_range_secs |-> delay_range_secs,
                  draws |-> draws]
    /\ UNCHANGED <<stIns, stReads, stOuts>>
    /\ StFrame

StProcess(input) ==
    /\ stState = "ready"
    /\ Len(stIns) < MaxStepCalls
    /\ LET r == DiffusionStepProcess(st, input)
       IN  /\ st' = r.node
           /\ stOuts' = Append(stOuts, r.out)
    /\ stIns' = Append(stIns, input)
    /\ stReads' = Append(stReads, StepDelayed(st, input))
    /\ UNCHANGED <<stState, stArgs>>
    /\ StFrame

StNext ==
    \/ \E sr \in StepRates, secs \in StepSecs, draws \in StepDraws : StNew(sr, secs, draws)
    \/ \E input \in StepInputs(Len(stIns) + 1) : StProcess(input)

----------------------------------------------------------------------------
(* The reverb engines, constructed and then fed frames *)

Engines == {1, 2}

\* the arguments BasicReverb::new is called with: the RT60 is 9/2 or 9/4 of
\* the room size, which makes the decay 1/10 or 1/100
EngRates  == {1, 2, 3, 40}
EngRooms  == {Rat(1), Rat(2)}
EngRt60s(room) == {RMul(room, RNorm(9, 2)), RMul(room, RNorm(9, 4))}
EngMixes  == {<<One, Zero>>, <<RNorm(1, 2), RNorm(1, 2)>>, <<Zero, One>>}

\* the frames fed to an engine: non-zero frames in the first MaxLoud calls
MaxEngCalls == 6
EngFrames == {ZeroFrame, Ramp, Impulse(0, One)}
EngInputs(k) == IF k < MaxLoud THEN EngFrames ELSE {ZeroFrame}

NoEngine ==
    [state |-> "none", args |-> <<>>, node |-> <<>>,
     ins |-> <<>>, outs |-> <<>>, diffs |-> <<>>, feds |-> <<>>]

EngInit == eng = [e \in Engines |-> NoEngine]

EngNew(e, sample_rate, room_size_secs, rt60, dry, wet) ==
    /\ eng[e].state = "none"
    /\ LET r == BasicReverbNew(sample_rate, room_size_secs, rt60, dry, wet)
       IN  eng' = [eng EXCEPT
                ![e].state = IF r.panic THEN "panic" ELSE "ready",
                ![e].node  = r.node,
                ![e].args  = [sample_rate |-> sample_rate,
                              room_size_secs |-> room_size_secs,
                              rt60 |-> rt60, dry |-> dry, wet |-> wet]]
    /\ EngFrame

EngProcess(e, input) ==
    /\ eng[e].state = "ready"
    /\ LET r == BasicReverbProcess(eng[e].node, input)
       IN  eng' = [eng EXCEPT
                ![e].node = r.node,
                ![e].ins  = Append(@, input),
                ![e].outs  = Append(@, r.out),
                ![e].diffs = Append(@, r.diffuse),
                ![e].feds  = Append(@, r.fed)]
    /\ EngFrame

\* one engine
EngNext ==
    \/ \E sr \in EngRates, room \in EngRooms, mix \in EngMixes :
         \E rt60 \in EngRt60s(room) : EngNew(1, sr, room, rt60, mix[1], mix[2])
    \/ \E input \in EngInputs(Len(eng[1].ins)) :
         /\ Len(eng[1].ins) < MaxEngCalls
         /\ EngProcess(1, input)

\* two engines, each built with its own arguments and fed its own frames
MaxTwinCalls == 3
TwinRates == {1, 2}
TwinFrames == {Ramp, Impulse(0, One)}
TwinNext ==
    \/ \E e \in Engines, sr \in TwinRates :
         EngNew(e, sr, Rat(1), RNorm(9, 2), RNorm(1, 2), RNorm(1, 2))
    \/ \E e \in Engines, input \in TwinFrames :
         /\ Len(eng[e].ins) < MaxTwinCalls
         /\ EngProcess(e, input)

----------------------------------------------------------------------------
(* The two mixers, called on frames of several lengths *)

\* the samples of the frames handed to the mixers: the whole numbers up to
\* MaxVal either side of 0, and 1/2
MaxVal == 1
MxVals == {Rat(v) : v \in (-MaxVal)..MaxVal} \cup {RNorm(1, 2)}

\* the frames of the mixers' unit tests
MxTests ==
    {[i \in Chan |-> One],
     [i \in Chan |-> Rat(i + 1)],
     [i \in Chan |-> IF i % 2 = 0 THEN Rat(i + 1) ELSE Rat(-(i + 1))]}

\* the frames of c channels: every frame over MxVals up to MaxLen channels,
\* the frames of signs beyond
MaxLen == 4
MxFrames(c) ==
    IF c <= MaxLen THEN [0..(c - 1) -> MxVals] ELSE [0..(c - 1) -> {Rat(-1), One}]

\* the channel counts transform_hadamard is built for: powers of two
HadamardLens == {1, 2, 4, 8}
\* those with a rational 1 / sqrt(C)
SquareLens == {1, 4}
\* the channel counts transform_householder is built for
HouseholderLens == 1..MaxLen

MxInit == mx = [op |-> "none", input |-> <<>>, output |-> <<>>]

\* the butterfly passes of transform_hadamard, before the scaling
MxButterfly(samples) ==
    /\ mx.op = "none"
    /\ mx' = [op |-> "butterfly", input |-> samples, output |-> ButterflyFrom(samples, 1)]
    /\ MxFrame

MxHadamard(samples) ==
    /\ mx.op = "none"
    /\ mx' = [op |-> "hadamard", input |-> samples, output |-> TransformHadamard(samples)]
    /\ MxFrame

MxHouseholder(samples) ==
    /\ mx.op = "none"
    /\ mx' = [op |-> "householder", input |-> samples,
              output |-> TransformHouseholder(samples)]
    /\ MxFrame

\* transform_householder called on what it returned
MxHouseholderAgain ==
    /\ mx.op = "householder"
    /\ mx' = [op |-> "householder twice", input |-> mx.input,
              output |-> TransformHouseholder(mx.output)]
    /\ MxFrame

\* the butterfly passes run on what they returned
MxButterflyAgain ==
    /\ mx.op = "butterfly"
    /\ mx' = [op |-> "butterfly twice", input |-> mx.input,
              output |-> ButterflyFrom(mx.output, 1)]
    /\ MxFrame

\* transform_hadamard called on what it returned
MxHadamardAgain ==
    /\ mx.op = "hadamard"
    /\ mx' = [op |-> "hadamard twice", input |-> mx.input,
              output |-> TransformHadamard(mx.output)]
    /\ MxFrame

\* the channel counts the loops of transform_hadamard are run on, powers of
\* two or not
MaxC == 16
LoopLens == 1..MaxC

\* the frames the loops are run on
LoopFrames(c) ==
    {[i \in 0..(c - 1) |-> Rat(i + 1)]} \cup (IF c <= MaxLen THEN MxFrames(c) ELSE {})

\* the loops of transform_hadamard, run on a frame of any length
MxHadamardLoops(samples) ==
    /\ mx.op = "none"
    /\ mx' = [op |-> "hadamard loops", input |-> samples, output |-> HadamardLoops(samples)]
    /\ MxFrame

MxNext ==
    \/ \E c \in HadamardLens : \E samples \in MxFrames(c) : MxButterfly(samples)
    \/ \E c \in SquareLens : \E samples \in MxFrames(c) \cup MxTests : MxHadamard(samples)
    \/ \E c \in HouseholderLens : \E samples \in MxFrames(c) \cup MxTests :
         MxHouseholder(samples)
    \/ MxHouseholderAgain
    \/ MxButterflyAgain
    \/ MxHadamardAgain
    \/ \E c \in LoopLens : \E samples \in LoopFrames(c) : MxHadamardLoops(samples)

----------------------------------------------------------------------------
(* A diffuser, constructed from a seeded generator and then fed frames *)

DfRates == {8}
DfSecs  == {Rat(1), Rat(2), Rat(4), Rat(8)}
MaxSeed == 3
DfSeeds == {U32(0, k) : k \in 1..MaxSeed} \cup {BasicReverbSeed}
MaxDfCalls == 3
DfFrames == {Ramp, Impulse(0, One)}

DfInit ==
    df = [state |-> "none", args |-> <<>>, node |-> <<>>, budgets |-> <<>>,
          rnd |-> RndNew(U32(0, 0)), ins |-> <<>>, outs |-> <<>>]

DfNew(sample_rate, seconds, seed) ==
    /\ df.state = "none"
    /\ LET r == DiffuserNew(sample_rate, seconds, RndNew(seed))
       IN  df' = [df EXCEPT
                !.state   = IF r.panic THEN "panic" ELSE "ready",
                !.node    = IF r.panic THEN <<>> ELSE [steps |-> r.steps],
                !.budgets = r.budgets,
                !.rnd     = r.rnd,
                !.args    = [sample_rate |-> sample_rate, seconds |-> seconds,
                             seed |-> seed]]
    /\ DfFrame

DfProcess(input) ==
    /\ df.state = "ready"
    /\ Len(df.ins) < MaxDfCalls
    /\ LET r == DiffuserProcess(df.node, input)
       IN  df' = [df EXCEPT
                !.node = r.node,
                !.ins  = Append(@, input),
                !.outs = Append(@, r.out)]
    /\ DfFrame

DfNext ==
    \/ \E sr \in DfRates, secs \in DfSecs, seed \in DfSeeds : DfNew(sr, secs, seed)
    \/ \E input \in DfFrames : DfProcess(input)

----------------------------------------------------------------------------
(* The specifications *)

vars == <<dlVars, fbVars, stVars, engVars, mxVars, dfVars>>

Init == DlInit /\ FbInit /\ StInit /\ EngInit /\ MxInit /\ DfInit

\* one delay line
SpecDelay == Init /\ [][DlNext]_vars

\* one feedback loop
SpecFeedback == Init /\ [][FbNext]_vars

\* one diffusion step
SpecStep == Init /\ [][StNext]_vars

\* one engine
SpecEngine == Init /\ [][EngNext]_vars

\* two engines
SpecTwin == Init /\ [][TwinNext]_vars

\* the mixers
SpecMixer == Init /\ [][MxNext]_vars

\* one diffuser
SpecDiffuser == Init /\ [][DfNext]_vars

----------------------------------------------------------------------------
(* The delay line's claims *)

\* the delay line was configured before its first write, with a length >= 1
DlConfiguredFirst == ~dlPanic /\ dlCfgAt = 0 /\ dl.sample_count >= 1

\* C3: with the active length n (1 <= n <= N) configured before any write,
\* in every state reached after at least n writes read() returns the sample
\* passed to the n-th most recent write.
C3_Ring ==
    (DlConfiguredFirst /\ Len(dlIn) >= dl.sample_count)
        => DelayRead(dl) = dlIn[Len(dlIn) - dl.sample_count + 1]

C3_Witness ==
    /\ DlConfiguredFirst
    /\ dl.sample_count = 3
    /\ Len(dlIn) = 5
    /\ dlIn[3] # dlIn[2] /\ dlIn[3] # dlIn[4]
    /\ DelayRead(dl) = dlIn[3]

\* C4 as stated: in the order write(x_t) then read(), the value read in call
\* t is x_(t-n), for every t >= n (calls counted from 0).
C4_Original ==
    (DlConfiguredFirst /\ dlOp.op = "write_read" /\ Len(dlIn) - 1 >= dl.sample_count)
        => dlOp.ret = dlIn[Len(dlIn) - dl.sample_count]

\* C4 as amended: in the order write(x_t) then read(), the value read in
\* call t is x_(t-(n-1)), the input written n-1 calls earlier, for every
\* t >= n-1; with n = 1 it is the sample written in the same call.
C4_WriteThenRead ==
    (DlConfiguredFirst /\ dlOp.op = "write_read" /\ Len(dlIn) >= dl.sample_count)
        => dlOp.ret = dlIn[Len(dlIn) - dl.sample_count + 1]

C4_Witness ==
    /\ DlConfiguredFirst
    /\ dlOp.op = "write_read"
    /\ dl.sample_count = 3
    /\ Len(dlIn) = 5
    /\ dlIn[3] # dlIn[2]
    /\ dlOp.ret = dlIn[3]

----------------------------------------------------------------------------
(* The feedback loop's claims *)

\* the delayed frame of call t: what the delay lines held when it began
FbDelayedAt(t) == fbOuts[t]

\* C5: process writes into channel i's delay line input[i] + h[i] * decay,
\* where h is the Householder transform of the frame read from the C delay
\* lines in that call.
C5_WritesHouseholder ==
    \A t \in 1..Len(fbSums) : \A i \in Chan :
        fbSums[t][i] = RAdd(fbIns[t][i],
                            RMul(TransformHouseholder(FbDelayedAt(t))[i], fb.decay))

RECURSIVE MaxSampleCount(_, _)
\* the longest active length among the first n delay lines of a node
MaxSampleCount(node, n) ==
    IF n = 0 THEN 0
    ELSE LET m == MaxSampleCount(node, n - 1)
             c == node.delays[n - 1].sample_count
         IN  IF c > m THEN c ELSE m

\* the only frame fed that was not silence was the first, on channel j alone
FbOneImpulse(j) ==
    /\ Len(fbIns) >= 1
    /\ fbIns[1] = Impulse(j, One)
    /\ \A t \in 2..Len(fbIns) : fbIns[t] = ZeroFrame

\* C6: for decay > 0, after a frame that is non-zero on channel j alone
\* followed by zero frames, some later returned frame is non-zero on a
\* channel i # j.  Through the Householder mix the impulse would come back
\* on every channel within two trips round the longest delay line, so the
\* claim is stated for the runs that are at least that long.
C6_CrossMix ==
    \A j \in Chan :
        (/\ fbState = "ready"
         /\ RLt(Zero, fb.decay)
         /\ FbOneImpulse(j)
         /\ Len(fbIns) >= 1 + 2 * MaxSampleCount(fb, C))
            => \E t \in 1..Len(fbOuts) : \E i \in Chan \ {j} : fbOuts[t][i] # Zero

----------------------------------------------------------------------------
(* The diffusion step's claims *)

\* the delay the step gave channel i: its configured sample count minus 1
StDelay(i) == st.delays[i].sample_count - 1

\* the delay_size DiffusionStep::new computed for channel i
StDrawn(i) ==
    StepDelaySize(stArgs.sample_rate, stArgs.delay_range_secs, i, stArgs.draws[i + 1])

\* C7: for every channel i and every draw, the drawn delay (the configured
\* sample_count minus 1) lies in [i*D/C, (i+1)*D/C), D being the step's
\* delay range in samples.
C7_Bucket ==
    stState = "ready" =>
        \A i \in Chan :
            /\ RLe(StepLo(stArgs.sample_rate, stArgs.delay_range_secs, i), Rat(StDelay(i)))
            /\ RLt(Rat(StDelay(i)), StepHi(stArgs.sample_rate, stArgs.delay_range_secs, i))

\* C8 as stated: every line is configured with drawn value + 1 >= 1, and in
\* every process call the value a channel hands to the mixer is not the
\* sample written in that same call (the frames of call t carry t or -t).
C8_Original ==
    stState = "ready" =>
        /\ \A i \in Chan : st.delays[i].sample_count = StDrawn(i) + 1
        /\ \A i \in Chan : st.delays[i].sample_count >= 1
        /\ \A t \in 1..Len(stReads) : \A i \in Chan : RAbs(stReads[t][i]) # Rat(t)

\* C8 as amended: every line is configured with drawn value + 1 >= 1, and
\* in every process call the value a channel hands to the mixer is the
\* sample written exactly `drawn value` calls earlier (initial silence
\* before that many calls were made): the sample of the same call when the
\* drawn value is 0, a strictly earlier one otherwise.
C8_MinimumDelay ==
    stState = "ready" =>
        /\ \A i \in Chan : st.delays[i].sample_count = StDrawn(i) + 1
        /\ \A i \in Chan : st.delays[i].sample_count >= 1
        /\ \A t \in 1..Len(stReads) : \A i \in Chan :
              stReads[t][i] = IF t - StDrawn(i) >= 1 THEN stIns[t - StDrawn(i)][i] ELSE Zero

\* a step with a channel of drawn delay 0 and a channel of drawn delay 2,
\* after three calls
C8_Witness ==
    /\ stState = "ready"
    /\ Len(stReads) = 3
    /\ StDrawn(0) = 0 /\ stReads[3][0] = stIns[3][0]
    /\ StDrawn(3) = 2 /\ stReads[3][3] = stIns[1][3] /\ stReads[2][3] = Zero
    /\ stIns[1] # stIns[3]

----------------------------------------------------------------------------
(* The engine: claims C1, C2 and C10 *)

\* the calls engine e has answered
EngCalls(e) == 1..Len(eng[e].outs)

\* C1: an engine built with dry = 1 and wet = 0 returns, at every call and
\* whatever its delay lines hold, exactly the frame it was given
C1_DryOnly ==
    \A e \in Engines :
        (eng[e].state = "ready" /\ eng[e].args.dry = One /\ eng[e].args.wet = Zero)
            => \A t \in EngCalls(e) : eng[e].outs[t] = eng[e].ins[t]

\* C1, its case: a dry-only engine answered a non-zero frame while its
\* feedback loop returned a non-zero frame
C1_Witness ==
    \E t \in EngCalls(1) :
        /\ eng[1].state = "ready"
        /\ eng[1].args.dry = One
        /\ eng[1].args.wet = Zero
        /\ eng[1].feds[t] # ZeroFrame
        /\ eng[1].ins[t] # ZeroFrame
        /\ eng[1].outs[t] = eng[1].ins[t]

\* the delay lengths and polarity flags an engine holds
EngLengths(e) ==
    [step     |-> [k \in 1..S |-> [i \in Chan |->
                      eng[e].node.diffuser.steps[k].delays[i].sample_count]],
     flip     |-> [k \in 1..S |-> eng[e].node.diffuser.steps[k].flip_polarity],
     feedback |-> [i \in Chan |-> eng[e].node.feedback.delays[i].sample_count]]

\* the first t frames fed to both engines are the same
SameInputs(t) == \A u \in 1..t : eng[1].ins[u] = eng[2].ins[u]

EngDraws == RndDraws(RndNew(BasicReverbSeed), StepDrawCount * S)

\* the length computed for line i of diffusion step k: the drawn value + 1
EngStepLength(a, k, i) ==
    StepDelaySize(a.sample_rate, RMul(a.room_size_secs, RNorm(1, Pow2(k))), i,
                  EngDraws[(k - 1) * StepDrawCount + i + 1]) + 1

\* the length computed for line i of the feedback loop: floor(2^(i/C) * base) + 1
EngFeedbackLength(a, i) ==
    RTrunc(RMul(Powf2(RNorm(i, C)), RMul(Rat(a.sample_rate), a.room_size_secs))) + 1

\* some length computed for the engine exceeds the capacity of a delay line
EngOversize(a) ==
    \/ \E k \in 1..S, i \in Chan : EngStepLength(a, k, i) > N
    \/ \E i \in Chan : EngFeedbackLength(a, i) > N

\* C10: constructing an engine panics when a computed delay length exceeds
\* the capacity N, and an engine that was constructed holds, in every delay
\* line, exactly the computed length
C10_NoTruncation ==
    \A e \in Engines :
        /\ (eng[e].state # "none" /\ EngOversize(eng[e].args)) => eng[e].state = "panic"
        /\ eng[e].state = "ready" =>
             /\ \A k \in 1..S, i \in Chan :
                    EngLengths(e).step[k][i] = EngStepLength(eng[e].args, k, i)
             /\ \A i \in Chan :
                    EngLengths(e).feedback[i] = EngFeedbackLength(eng[e].args, i)

\* C10, its case: a construction panicked over a diffusion line that does not fit
C10_Witness ==
    /\ eng[1].state = "panic"
    /\ \E k \in 1..S, i \in Chan : EngStepLength(eng[1].args, k, i) > N

\* C10, its other cases: a construction panicked over a feedback line alone,
\* and a construction completed with lines of different lengths
C10_FeedbackAlone ==
    /\ eng[1].state = "panic"
    /\ \A k \in 1..S, i \in Chan : EngStepLength(eng[1].args, k, i) <= N
    /\ EngFeedbackLength(eng[1].args, 0) <= N

C10_Completed ==
    /\ eng[1].state = "ready"
    /\ \E i \in Chan : EngLengths(1).feedback[i] = N

----------------------------------------------------------------------------
(* The engine's tail: claim C11 *)

RECURSIVE MaxOver(_)
\* the largest of a non-empty finite set of non-negative rationals
MaxOver(set) ==
    LET x == CHOOSE y \in set : TRUE
    IN  IF set = {x} THEN x
        ELSE LET m == MaxOver(set \ {x}) IN IF RLt(m, x) THEN x ELSE m

\* the peak magnitude of a frame
FramePeak(samples) == MaxOver({RAbs(samples[i]) : i \in DOMAIN samples})

\* the peak magnitude held in the delay lines of a feedback loop
FeedbackPeak(f) ==
    MaxOver({RAbs(f.delays[i].buffer[k]) : i \in Chan, k \in 0..(N - 1)})

\* the calls in which engine e was fed a frame that is not silence
EngLoudCalls(e) == {t \in 1..Len(eng[e].ins) : eng[e].ins[t] # ZeroFrame}

\* engine e is ready, with a decay gain in [0, 1)
EngStable(e) ==
    /\ eng[e].state = "ready"
    /\ RLe(Zero, eng[e].node.feedback.decay)
    /\ RLt(eng[e].node.feedback.decay, One)

\* after one impulse, what the feedback loop returns never exceeds the peak
\* of the diffused impulse, and the output never exceeds |wet| times it
EngTailBounded(e) ==
    \A p \in EngLoudCalls(e) :
        (EngStable(e) /\ EngLoudCalls(e) = {p}) =>
            \A t \in (p + 1)..Len(eng[e].outs) :
                /\ RLe(FramePeak(eng[e].feds[t]), FramePeak(eng[e].diffs[p]))
                /\ RLe(FramePeak(eng[e].outs[t]),
                       RMul(RAbs(eng[e].node.wet), FramePeak(eng[e].diffs[p])))

\* a call with silence in and silence out of the diffuser, after one
\* impulse, does not raise the peak held in the feedback delay lines
EngPeakStep(e) ==
    (/\ EngStable(e)
     /\ Cardinality(EngLoudCalls(e)) = 1
     /\ Len(eng'[e].ins) = Len(eng[e].ins) + 1
     /\ eng'[e].ins[Len(eng'[e].ins)] = ZeroFrame
     /\ eng'[e].diffs[Len(eng'[e].diffs)] = ZeroFrame)
        => RLe(FeedbackPeak(eng'[e].node.feedback), FeedbackPeak(eng[e].node.feedback))

\* C11: for a decay gain in [0, 1), after one non-zero impulse frame
\* followed by zero frames the output magnitude stays bounded, and once the
\* diffuser returns silence the peak magnitude held in the feedback delay
\* lines never increases from one process call to the next
C11_DecayStable ==
    /\ [](\A e \in Engines : EngTailBounded(e))
    /\ [][\A e \in Engines : EngPeakStep(e)]_vars

\* C11, its case: an impulse went in first, silence after it, the tail came
\* back from the feedback loop quieter than the impulse and the delay lines
\* still hold some of it
C11_Witness ==
    /\ EngStable(1)
    /\ EngLoudCalls(1) = {1}
    /\ Len(eng[1].ins) = MaxEngCalls
    /\ \E t \in 2..MaxEngCalls :
          /\ eng[1].feds[t] # ZeroFrame
          /\ RLt(FramePeak(eng[1].feds[t]), FramePeak(eng[1].diffs[1]))
    /\ RLt(Zero, FeedbackPeak(eng[1].node.feedback))

----------------------------------------------------------------------------
(* The mixers: claims C12 to C16 *)

\* the sum of the squares of a frame's samples
Energy(samples) ==
    FrameSum([i \in DOMAIN samples |-> RMul(samples[i], samples[i])], FrameLen(samples))

\* the channel count of the mixer's last call
MxLen == FrameLen(mx.input)

\* C12: the sum of squares of transform_hadamard's output equals that of its
\* input; for every power-of-two channel count the butterfly output, before
\* the scaling, has exactly C times the energy of the input
C12_HadamardEnergy ==
    /\ mx.op = "hadamard"  => Energy(mx.output) = Energy(mx.input)
    /\ mx.op = "butterfly" => Energy(mx.output) = RMul(Rat(MxLen), Energy(mx.input))

\* C12, its case: a frame of four channels with energy came back from the
\* transform changed
C12_Witness ==
    /\ mx.op = "hadamard"
    /\ MxLen = 4
    /\ mx.output # mx.input
    /\ RLt(Zero, Energy(mx.input))
    /\ Energy(mx.output) = Energy(mx.input)

RECURSIVE Popcount(_)
\* the number of 1 bits of a natural number
Popcount(n) == IF n = 0 THEN 0 ELSE (n % 2) + Popcount(n \div 2)

RECURSIVE BitAnd(_, _)
\* i AND k, bit by bit
BitAnd(i, k) ==
    IF i = 0 \/ k = 0 THEN 0
    ELSE ((i % 2) * (k % 2)) + 2 * BitAnd(i \div 2, k \div 2)

\* (-1)^popcount(i AND k) * x
WalshTerm(i, k, x) == IF Popcount(BitAnd(i, k)) % 2 = 0 THEN x ELSE RNeg(x)

\* the natural-order Walsh-Hadamard transform of a frame, unscaled
Walsh(samples) ==
    [k \in DOMAIN samples |->
        FrameSum([i \in DOMAIN samples |-> WalshTerm(i, k, samples[i])],
                 FrameLen(samples))]

\* 1 / sqrt(c) for the channel counts 1 and 4
WalshScale(c) == IF c = 1 THEN One ELSE RNorm(1, 2)

\* C13: transform_hadamard is the natural-order Walsh-Hadamard transform
\* scaled by 1/sqrt(C): output[k] = (1/sqrt(C)) * sum over i of
\* (-1)^popcount(i AND k) * input[i]; [1,1,1,1] gives [2,0,0,0] and
\* [1,2,3,4] gives [5,-1,-2,0]
C13_Walsh ==
    /\ mx.op = "butterfly" => mx.output = Walsh(mx.input)
    /\ mx.op = "hadamard" =>
         /\ \A k \in DOMAIN mx.input :
               mx.output[k] = RMul(WalshScale(MxLen), Walsh(mx.input)[k])
         /\ mx.input = [i \in Chan |-> One] =>
               mx.output = [i \in Chan |-> IF i = 0 THEN Rat(2) ELSE Zero]
         /\ mx.input = [i \in Chan |-> Rat(i + 1)] =>
               mx.output = [i \in Chan |->
                               CASE i = 0 -> Rat(5) [] i = 1 -> Rat(-1)
                                 [] i = 2 -> Rat(-2) [] OTHER -> Zero]

\* C13, its case: the second frame of the unit test was transformed
C13_Witness ==
    /\ mx.op = "hadamard"
    /\ mx.input = [i \in Chan |-> Rat(i + 1)]
    /\ mx.output[0] = Rat(5) /\ mx.output[1] = Rat(-1)
    /\ mx.output[2] = Rat(-2) /\ mx.output[3] = Zero

\* the frame (a, b, c, d) of four channels
Frame4(a, b, c, d) ==
    [i \in Chan |-> CASE i = 0 -> Rat(a) [] i = 1 -> Rat(b) [] i = 2 -> Rat(c) [] OTHER -> Rat(d)]

\* C14: transform_householder maps a frame of any length C to
\* output[i] = input[i] - (2/C) * (sum of all inputs); [1,2,3,4] gives
\* [-4,-3,-2,-1] and [1,-2,3,-4] gives [2,-1,4,-3]
C14_Householder ==
    mx.op = "householder" =>
        /\ \A i \in DOMAIN mx.input :
              mx.output[i] =
                  RSub(mx.input[i],
                       RMul(RNorm(2, MxLen), FrameSum(mx.input, MxLen)))
        /\ mx.input = Frame4(1, 2, 3, 4) => mx.output = Frame4(-4, -3, -2, -1)
        /\ mx.input = Frame4(1, -2, 3, -4) => mx.output = Frame4(2, -1, 4, -3)

\* C14, its case: the second frame of the unit test was transformed
C14_Witness ==
    /\ mx.op = "householder"
    /\ mx.input = Frame4(1, -2, 3, -4)
    /\ mx.output = Frame4(2, -1, 4, -3)

\* C15: transform_householder applied twice returns the original frame
C15_Involution ==
    mx.op = "householder twice" => mx.output = mx.input

\* C15, its case: a frame of three channels whose sum is not 0 (so that one
\* application changes it) came back after two
C15_Witness ==
    /\ mx.op = "householder twice"
    /\ MxLen = 3
    /\ FrameSum(mx.input, MxLen) # Zero
    /\ mx.output = mx.input

\* C16: for every channel count, the sum of squares of
\* transform_householder's output equals that of its input
C16_HouseholderEnergy ==
    mx.op = "householder" => Energy(mx.output) = Energy(mx.input)

\* C16, its case: a frame of three channels was changed by the transform
\* and kept its energy
C16_Witness ==
    /\ mx.op = "householder"
    /\ MxLen = 3
    /\ mx.output # mx.input
    /\ RLt(Zero, Energy(mx.input))
    /\ Energy(mx.output) = Energy(mx.input)

----------------------------------------------------------------------------
(* The feedback loop's return: claim C17 *)

\* the active length of line i of the feedback loop
FbLength(i) == fb.delays[i].sample_count

\* C17: process returns the values read from the delay lines before any
\* write of that call: what call t returns for channel i is what was written
\* for channel i FbLength(i) >= 1 calls earlier (the initial silence before
\* that), so it never depends on the input of call t, and the sample written
\* in call t is returned by a strictly later call
C17_ReturnsDelayed ==
    fbState = "ready" =>
        \A i \in Chan :
            /\ FbLength(i) >= 1
            /\ \A t \in 1..Len(fbOuts) :
                  fbOuts[t][i] = IF t - FbLength(i) >= 1
                                 THEN fbSums[t - FbLength(i)][i]
                                 ELSE Zero

\* C17, its case: a non-zero sample written in one call was not returned by
\* that call and came back from a later one
C17_Witness ==
    /\ fbState = "ready"
    /\ \E i \in Chan : \E t \in 1..Len(fbOuts) :
          /\ fbSums[t][i] # Zero
          /\ fbOuts[t][i] # fbSums[t][i]
          /\ t + FbLength(i) <= Len(fbOuts)
          /\ fbOuts[t + FbLength(i)][i] = fbSums[t][i]

----------------------------------------------------------------------------
(* The engine's pipeline: claim C18 *)

\* delay line `after` is delay line `before` advanced by one write: the
\* cursor moved on by one slot, no slot but the one under the cursor changed
LineAdvanced(before, after) ==
    /\ after.sample_count = before.sample_count
    /\ after.index = (before.index + 1) % before.sample_count
    /\ \A k \in 0..(N - 1) : k # before.index => after.buffer[k] = before.buffer[k]

\* every delay line engine `after` owns is that of `before` advanced by one write
EngAdvanced(before, after) ==
    /\ \A k \in 1..S, i \in Chan :
          LineAdvanced(before.diffuser.steps[k].delays[i], after.diffuser.steps[k].delays[i])
    /\ \A i \in Chan :
          LineAdvanced(before.feedback.delays[i], after.feedback.delays[i])

\* a call of process on engine e: the diffuser ran on the input, the
\* feedback loop on what the diffuser returned, and the mix took the input
\* and what the feedback loop returned
EngPipelineStep(e) ==
    (eng[e].state = "ready" /\ Len(eng'[e].ins) = Len(eng[e].ins) + 1) =>
        LET t        == Len(eng'[e].ins)
            input    == eng'[e].ins[t]
            diffused == DiffuserProcess(eng[e].node.diffuser, input).out
            fed      == MixedFeedbackProcess(eng[e].node.feedback, diffused).out
        IN  /\ eng'[e].diffs[t] = diffused
            /\ eng'[e].feds[t] = fed
            /\ \A i \in Chan :
                  eng'[e].outs[t][i] =
                      RAdd(RMul(input[i], eng[e].node.dry), RMul(fed[i], eng[e].node.wet))
            /\ EngAdvanced(eng[e].node, eng'[e].node)

\* C18: process composes Diffuser -> MixedFeedback -> mix: output[i] =
\* input[i]*dry + fed[i]*wet, fed being the feedback loop's return for the
\* diffuser's output of the same call and the dry term the undiffused
\* input; each call advances every owned delay line by exactly one write
C18_Pipeline == [][\A e \in Engines : EngPipelineStep(e)]_vars

\* C18, its case: a call in which the input, the diffuser's output and the
\* feedback loop's return were three different frames, none of them silence,
\* and both gains took part in the output
C18_Witness ==
    /\ eng[1].state = "ready"
    /\ eng[1].node.dry # Zero /\ eng[1].node.wet # Zero
    /\ \E t \in EngCalls(1) :
          /\ eng[1].ins[t] # ZeroFrame
          /\ eng[1].feds[t] # ZeroFrame
          /\ eng[1].diffs[t] # eng[1].ins[t]
          /\ eng[1].feds[t] # eng[1].diffs[t]
          /\ \A i \in Chan :
                eng[1].outs[t][i] =
                    RAdd(RMul(eng[1].ins[t][i], eng[1].node.dry),
                         RMul(eng[1].feds[t][i], eng[1].node.wet))

----------------------------------------------------------------------------
(* The engine's configuration: claim C19 *)

\* what construction fixed in an engine: every delay line's active length,
\* every polarity flag, the decay gain, dry and wet
EngConfigOf(node) ==
    [step     |-> [k \in 1..S |-> [i \in Chan |-> node.diffuser.steps[k].delays[i].sample_count]],
     flip     |-> [k \in 1..S |-> node.diffuser.steps[k].flip_polarity],
     feedback |-> [i \in Chan |-> node.feedback.delays[i].sample_count],
     decay    |-> node.feedback.decay,
     dry      |-> node.dry,
     wet      |-> node.wet]

\* the engine as BasicReverb::new returned it
EngAsBuilt(e) ==
    BasicReverbNew(eng[e].args.sample_rate, eng[e].args.room_size_secs,
                   eng[e].args.rt60, eng[e].args.dry, eng[e].args.wet).node

\* C19: no process call changes a delay line's active length, a polarity
\* flag, the decay gain, dry or wet: from construction on, the configuration
\* of an engine is the one it was built with, at every step
C19_Frozen ==
    /\ [](\A e \in Engines :
            eng[e].state = "ready" => EngConfigOf(eng[e].node) = EngConfigOf(EngAsBuilt(e)))
    /\ [][\A e \in Engines :
            eng[e].state = "ready" => EngConfigOf(eng'[e].node) = EngConfigOf(eng[e].node)]_vars

\* C19, its case: an engine has answered MaxEngCalls frames, its delay
\* lines no longer hold what they held when it was built, and its
\* configuration is the one it was built with
C19_Witness ==
    /\ eng[1].state = "ready"
    /\ Len(eng[1].ins) = MaxEngCalls
    /\ eng[1].node # EngAsBuilt(1)
    /\ \E i \in Chan : eng[1].node.feedback.delays[i].buffer # MemoryDelayDefault.buffer
    /\ EngConfigOf(eng[1].node) = EngConfigOf(EngAsBuilt(1))

----------------------------------------------------------------------------
(* The diffuser's stages: claim C20 *)

\* the time budget of stage k (counted from 1): seconds / 2^k
DfBudget(k) == RMul(df.args.seconds, RNorm(1, Pow2(k)))

\* the values the diffuser's generator returned during construction
DfDraws == RndDraws(RndNew(df.args.seed), StepDrawCount * S)

\* the active length of line i of stage k under a time budget
DfLengthUnder(budget, k, i) ==
    StepDelaySize(df.args.sample_rate, budget, i,
                  DfDraws[(k - 1) * StepDrawCount + i + 1]) + 1

\* C20: the stage built k-th (k = 0, 1, ...) is constructed with a time
\* budget of seconds / 2^(k+1): DiffusionStep::new is called with that
\* budget, and the delay lines of the stage have the lengths it gives
C20_BudgetsHalve ==
    df.state # "none" =>
        /\ \A k \in 1..Len(df.budgets) : df.budgets[k] = DfBudget(k)
        /\ df.state = "ready" =>
              /\ Len(df.budgets) = S
              /\ \A k \in 1..S, i \in Chan :
                    df.node.steps[k].delays[i].sample_count
                        = DfLengthUnder(DfBudget(k), k, i)

\* C20, its case: a diffuser was built whose first stage has a line that
\* would have been longer under the whole time, and whose second stage has
\* a line that would have been longer under the first stage's budget
C20_Witness ==
    /\ df.state = "ready"
    /\ df.budgets[1] = RMul(df.args.seconds, RNorm(1, 2))
    /\ df.budgets[2] = RMul(df.budgets[1], RNorm(1, 2))
    /\ \E i \in Chan :
          df.node.steps[1].delays[i].sample_count < DfLengthUnder(df.args.seconds, 1, i)
    /\ \E i \in Chan :
          df.node.steps[2].delays[i].sample_count < DfLengthUnder(df.budgets[1], 2, i)

----------------------------------------------------------------------------
(* The feedback loop's lengths: claim C21 *)

\* base_sample_count = sample_rate * delay_secs
FbBase == RMul(Rat(fbArgs.sample_rate), fbArgs.delay_secs)

RECURSIVE IntPow(_, _)
\* x^k for a whole x and k >= 0
IntPow(x, k) == IF k = 0 THEN 1 ELSE x * IntPow(x, k - 1)

\* len = floor(2^(i/C) * base) + 1, said without a root: with base = p/q,
\* ((len - 1) * q)^C <= 2^i * p^C < (len * q)^C
FbGeometric(i, len) ==
    LET p == FbBase[1]
        q == FbBase[2]
    IN  /\ len >= 1
        /\ IntPow((len - 1) * q, C) <= Pow2(i) * IntPow(p, C)
        /\ Pow2(i) * IntPow(p, C) < IntPow(len * q, C)

\* C21: channel i's active length is floor(2^(i/C) * sample_rate *
\* delay_secs) + 1: channel 0 has floor(base) + 1, the lengths do not
\* decrease with i, and every length is below 2 * base + 1
C21_GeometricLengths ==
    fbState = "ready" =>
        /\ \A i \in Chan : FbGeometric(i, fb.delays[i].sample_count)
        /\ fb.delays[0].sample_count = RTrunc(FbBase) + 1
        /\ \A i \in Chan \ {0} : fb.delays[i - 1].sample_count <= fb.delays[i].sample_count
        /\ \A i \in Chan :
              RLt(Rat(fb.delays[i].sample_count), RAdd(RMul(Rat(2), FbBase), One))

\* C21, its case: a loop was built whose last line is longer than its first
C21_Witness ==
    /\ fbState = "ready"
    /\ fb.delays[0].sample_count = RTrunc(FbBase) + 1
    /\ fb.delays[0].sample_count < fb.delays[C - 1].sample_count
    /\ FbGeometric(C - 1, fb.delays[C - 1].sample_count)

----------------------------------------------------------------------------
(* The delay line's cursor: claim C22 *)

\* the writes that stored into slot k of a line of active length n
DlWritesTo(k, n) == {t \in 1..Len(dlIn) : (t - 1) % n = k}

\* the latest of a non-empty set of writes
DlLatest(ts) == CHOOSE t \in ts : \A u \in ts : u <= t

\* the cursor is inside the active length, it has gone round slots
\* 0..n-1 once per n writes, every slot below n holds the last sample
\* written to it and no slot from n on was touched
DlCursorInside ==
    DlConfiguredFirst =>
        /\ 0 <= dl.index /\ dl.index < dl.sample_count /\ dl.sample_count <= N
        /\ dl.index = Len(dlIn) % dl.sample_count
        /\ \A k \in 0..(dl.sample_count - 1) :
              dl.buffer[k] = IF DlWritesTo(k, dl.sample_count) = {} THEN Zero
                             ELSE dlIn[DlLatest(DlWritesTo(k, dl.sample_count))]
        /\ \A k \in dl.sample_count..(N - 1) : dl.buffer[k] = Zero

\* a write stores its sample under the cursor and moves the cursor on by
\* one, back to 0 on reaching the active length; no other slot changes
DlWriteStep ==
    (DlConfiguredFirst /\ Len(dlIn') = Len(dlIn) + 1) =>
        /\ dl'.buffer[dl.index] = dlIn'[Len(dlIn')]
        /\ \A k \in 0..(N - 1) : k # dl.index => dl'.buffer[k] = dl.buffer[k]
        /\ dl'.index = IF dl.index + 1 = dl.sample_count THEN 0 ELSE dl.index + 1
        /\ dl'.sample_count = dl.sample_count

\* C22: write(v) stores v at the cursor and then advances the cursor by one,
\* wrapping to 0 on reaching the active length; with the active length n >= 1
\* configured before the first write, 0 <= cursor < n <= capacity in every
\* reachable state, the cursor visits slots 0..n-1 cyclically and no slot
\* >= n is touched
C22_Cursor == []DlCursorInside /\ [][DlWriteStep]_vars

\* C22, its case: a line of active length 2 in a buffer of N slots has been
\* written MaxWrites times, the cursor has wrapped and the slots from 2 on
\* are as they were
C22_Witness ==
    /\ DlConfiguredFirst
    /\ dl.sample_count = 2
    /\ Len(dlIn) = MaxWrites
    /\ dl.index = MaxWrites % 2
    /\ dl.buffer[0] # Zero /\ dl.buffer[1] # Zero
    /\ \A k \in 2..(N - 1) : dl.buffer[k] = Zero

----------------------------------------------------------------------------
(* The polarity flags: claim C23 *)

\* the value the generator returned for the polarity of channel i
StFlipDraw(i) == stArgs.draws[C + i + 1]

\* a 32-bit value, given by its 16-bit halves, is at least 2^31: its top
\* bit is set, which is true of 2^15 * 2^16 = 2^31 of the 2^32 values
TopBitSet(n) == n[1] >= Pow2(15)

\* C23: a channel's polarity flag is set exactly when its draw is strictly
\* greater than floor((2^32 - 1) / 2) = 2^31 - 1, that is for the 2^31
\* draws with the top bit set; process negates exactly the flagged channels
\* of the Hadamard mix of the delayed frame
C23_Polarity ==
    stState = "ready" =>
        /\ \A i \in Chan : st.flip_polarity[i] <=> TopBitSet(StFlipDraw(i))
        /\ \A t \in 1..Len(stOuts) : \A i \in Chan :
              stOuts[t][i] = IF TopBitSet(StFlipDraw(i))
                             THEN RNeg(TransformHadamard(stReads[t])[i])
                             ELSE TransformHadamard(stReads[t])[i]

\* C23, its case: channel 0 drew 2^31 - 1 and was not flagged, channel 1
\* drew 2^31 and was flagged, and a call returned the mix of channel 0 as it
\* was and the mix of channel 1 negated, neither being 0
C23_Witness ==
    /\ stState = "ready"
    /\ StFlipDraw(0) = U32(32767, 65535) /\ ~st.flip_polarity[0]
    /\ StFlipDraw(1) = U32(32768, 0) /\ st.flip_polarity[1]
    /\ \E t \in 1..Len(stOuts) :
          /\ TransformHadamard(stReads[t])[0] # Zero
          /\ TransformHadamard(stReads[t])[1] # Zero
          /\ stOuts[t][0] = TransformHadamard(stReads[t])[0]
          /\ stOuts[t][1] = RNeg(TransformHadamard(stReads[t])[1])

----------------------------------------------------------------------------
(* The order of the draws: claim C24 *)

\* the place, among the draws of one construction, of the delay draw and of
\* the polarity draw of channel i of stage k (stages counted from 1)
DfDelayDrawAt(k, i) == (k - 1) * StepDrawCount + i + 1
DfFlipDrawAt(k, i)  == (k - 1) * StepDrawCount + C + i + 1

RECURSIVE RndStates(_, _)
\* the states a generator in state s goes through in k draws: the state
\* before the first draw, ..., the state after the k-th
RndStates(s, k) ==
    IF k = 0 THEN <<s>>
    ELSE LET r == RndNext(s) IN <<s>> \o RndStates(r.state, k - 1)

\* the states the diffuser's generator went through during construction
DfRndStates == RndStates(RndNew(df.args.seed), 2 * C * S)

\* C24: the one generator is advanced stage by stage; within a stage the C
\* delay draws of channels 0..C-1 come first and the C polarity draws of
\* channels 0..C-1 after them, 2 * C draws a stage, and the generator is
\* left where 2 * C * S draws put it
C24_DrawOrder ==
    df.state = "ready" =>
        /\ \A k \in 1..S, i \in Chan :
              /\ df.node.steps[k].delays[i].sample_count
                    = StepDelaySize(df.args.sample_rate, DfBudget(k), i,
                                    DfDraws[DfDelayDrawAt(k, i)]) + 1
              /\ df.node.steps[k].flip_polarity[i]
                    <=> WGt(DfDraws[DfFlipDrawAt(k, i)], U32MaxHalf)
        /\ df.rnd = DfRndStates[2 * C * S + 1]
        /\ \A m \in 1..(2 * C * S) : df.rnd # DfRndStates[m]

\* C24, its case: a diffuser was built in which a line of the last stage
\* has a length, and a channel of the last stage a flag, that the draw at
\* the same place of the stage before, or the draw the channel would have
\* had with delay and polarity drawn in turn, would not have given
C24_Witness ==
    /\ df.state = "ready"
    /\ \E i \in Chan :
          /\ df.node.steps[S].delays[i].sample_count
                # StepDelaySize(df.args.sample_rate, DfBudget(S), i,
                                DfDraws[DfDelayDrawAt(S - 1, i)]) + 1
          /\ df.node.steps[S].delays[i].sample_count
                # StepDelaySize(df.args.sample_rate, DfBudget(S), i,
                                DfDraws[(S - 1) * StepDrawCount + 2 * i + 1]) + 1
    /\ \E i \in Chan :
          /\ df.node.steps[S].flip_polarity[i]
                # WGt(DfDraws[DfFlipDrawAt(S - 1, i)], U32MaxHalf)
          /\ df.node.steps[S].flip_polarity[i]
                # WGt(DfDraws[(S - 1) * StepDrawCount + 2 * i + 2], U32MaxHalf)

----------------------------------------------------------------------------
(* The diffuser's pipe: claim C25 *)

RECURSIVE DfPiped(_, _, _)
\* the frame that leaves stage k (stages counted from 1) of the steps when
\* the input enters stage 1 and every stage is given what the stage before
\* it returned; DfPiped(steps, input, 0) is the input
DfPiped(steps, input, k) ==
    IF k = 0 THEN input
    ELSE DiffusionStepProcess(steps[k], DfPiped(steps, input, k - 1)).out

RECURSIVE DfPipedBack(_, _, _)
\* the same with the stages taken last to first
DfPipedBack(steps, input, k) ==
    IF k = 0 THEN input
    ELSE DiffusionStepProcess(steps[S - k + 1], DfPipedBack(steps, input, k - 1)).out

\* a call of process on the diffuser: what it returns is what leaves the
\* last stage, every stage was run once on what the stage before it returned
\* in this call, and every line of every stage took one write
DfPipeStep ==
    (df.state = "ready" /\ Len(df'.ins) = Len(df.ins) + 1) =>
        LET t     == Len(df'.ins)
            input == df'.ins[t]
        IN  /\ Len(df'.outs) = t
            /\ df'.outs[t] = DfPiped(df.node.steps, input, S)
            /\ \A k \in 1..S :
                  df'.node.steps[k] =
                      DiffusionStepProcess(df.node.steps[k],
                                           DfPiped(df.node.steps, input, k - 1)).node
            /\ \A k \in 1..S, i \in Chan :
                  LineAdvanced(df.node.steps[k].delays[i], df'.node.steps[k].delays[i])

\* C25: Diffuser::process passes the frame through every stage exactly once
\* a call, in construction order, each stage receiving what the stage before
\* it returned in the same call
C25_Pipe == [][DfPipeStep]_vars

\* the steps of the diffuser as Diffuser::new built them
DfFresh ==
    DiffuserNew(df.args.sample_rate, df.args.seconds, RndNew(df.args.seed)).steps

\* C25, its case: the first call on a diffuser returned what leaves the last
\* stage when the input enters the first, a frame that is not silence, not
\* the input, not what the first stage alone returns and not what the stages
\* taken last to first return
C25_Witness ==
    /\ df.state = "ready"
    /\ Len(df.outs) >= 1
    /\ df.outs[1] = DfPiped(DfFresh, df.ins[1], S)
    /\ df.outs[1] # ZeroFrame
    /\ df.outs[1] # df.ins[1]
    /\ df.outs[1] # DfPiped(DfFresh, df.ins[1], 1)
    /\ df.outs[1] # DfPipedBack(DfFresh, df.ins[1], S)

----------------------------------------------------------------------------
(* The silence a new engine starts with: claim C26 *)

\* the active length of line i of the feedback loop of engine e
EngFbLength(e, i) == eng[e].node.feedback.delays[i].sample_count

\* C26: in each of the first len_i calls on a new engine, len_i being the
\* active length of line i of the feedback loop, channel i of the output is
\* channel i of the input times dry, whatever wet and the inputs are; the
\* smallest len_i is len_0 = floor(sample_rate * room_size) + 1
C26_WetSilence ==
    \A e \in Engines :
        eng[e].state = "ready" =>
            /\ EngFbLength(e, 0)
                  = RTrunc(RMul(Rat(eng[e].args.sample_rate), eng[e].args.room_size_secs)) + 1
            /\ \A i \in Chan : EngFbLength(e, i) >= EngFbLength(e, 0)
            /\ \A i \in Chan : \A t \in EngCalls(e) :
                  t <= EngFbLength(e, i) =>
                      eng[e].outs[t][i] = RMul(eng[e].ins[t][i], eng[e].args.dry)

\* C26, its case: an engine with a wet gain was fed sound on channel 0, whose
\* line is shorter than another's; channel 0 of the output was the input
\* times dry, a value that is not 0, in every one of the first len_0 calls
\* and was something else in the call after them
C26_Witness ==
    /\ eng[1].state = "ready"
    /\ eng[1].args.wet # Zero
    /\ \E i \in Chan : EngFbLength(1, i) > EngFbLength(1, 0)
    /\ Len(eng[1].outs) > EngFbLength(1, 0)
    /\ \A t \in 1..EngFbLength(1, 0) :
          /\ eng[1].ins[t][0] # Zero
          /\ eng[1].outs[t][0] = RMul(eng[1].ins[t][0], eng[1].args.dry)
          /\ eng[1].outs[t][0] # Zero
    /\ LET t == EngFbLength(1, 0) + 1
       IN  eng[1].outs[t][0] # RMul(eng[1].ins[t][0], eng[1].args.dry)

----------------------------------------------------------------------------
(* Silence in, silence out: claim C27 *)

\* every slot of the line's buffer holds 0
LineSilent(line) == \A k \in DOMAIN line.buffer : line.buffer[k] = Zero

\* every delay buffer of the engine, in the diffuser and in the feedback
\* loop, holds only zeros
EngSilent(node) ==
    /\ \A k \in 1..S, i \in Chan : LineSilent(node.diffuser.steps[k].delays[i])
    /\ \A i \in Chan : LineSilent(node.feedback.delays[i])

\* C27: as long as every frame fed to a new engine has been all zeros, every
\* delay buffer of the diffuser and of the feedback loop holds only zeros
\* and every frame returned is all zeros
C27_ZeroInZeroOut ==
    \A e \in Engines :
        (eng[e].state = "ready" /\ \A t \in 1..Len(eng[e].ins) : eng[e].ins[t] = ZeroFrame)
            => /\ EngSilent(eng[e].node)
               /\ \A t \in EngCalls(e) : eng[e].outs[t] = ZeroFrame

\* C27, its case: an engine with a wet gain has been fed silence for more
\* calls than its longest line is long, so every line has wrapped, and has
\* returned silence in each of them
C27_Witness ==
    /\ eng[1].state = "ready"
    /\ eng[1].args.wet # Zero /\ eng[1].args.dry # Zero
    /\ \A i \in Chan : Len(eng[1].ins) > EngFbLength(1, i)
    /\ \A k \in 1..S, i \in Chan :
          Len(eng[1].ins) > eng[1].node.diffuser.steps[k].delays[i].sample_count
    /\ \A t \in 1..Len(eng[1].ins) : eng[1].ins[t] = ZeroFrame
    /\ \A t \in EngCalls(1) : eng[1].outs[t] = ZeroFrame
    /\ EngSilent(eng[1].node)

----------------------------------------------------------------------------
(* The silence a delay line starts with: claim C28 *)

\* C28: a default-constructed line configured with the active length n
\* returns 0.0 from every read() made while fewer than n writes have
\* occurred, the read of a step coming before its write
C28_InitialSilence ==
    DlConfiguredFirst =>
        /\ Len(dlIn) < dl.sample_count => DelayRead(dl) = Zero
        /\ (dlOp.op = "read_write" /\ Len(dlIn) - 1 < dl.sample_count)
              => dlOp.ret = Zero

\* C28, its case: a line of active length 3 has just been read and written
\* a third time, every sample written being other than 0, the read returned
\* 0, and the next read returns the first sample written
C28_Witness ==
    /\ DlConfiguredFirst
    /\ dl.sample_count = 3
    /\ dlOp.op = "read_write"
    /\ Len(dlIn) = 3
    /\ \A t \in 1..3 : dlIn[t] # Zero
    /\ dlOp.ret = Zero
    /\ DelayRead(dl) = dlIn[1]

----------------------------------------------------------------------------
(* The Hadamard mixer applied twice: claim C29 *)

\* C29: transform_hadamard applied to what it returned gives back the frame
\* it was first given, and the butterfly passes without the scaling, applied
\* to what they returned, give C times that frame
C29_Involution ==
    /\ mx.op = "hadamard twice" => mx.output = mx.input
    /\ mx.op = "butterfly twice" =>
          \A k \in DOMAIN mx.input :
              mx.output[k] = RMul(Rat(FrameLen(mx.input)), mx.input[k])

\* C29, its case: a frame of four channels, no two of them equal, that the
\* transform changes in every channel and that two transforms give back
C29_Witness ==
    /\ mx.op = "hadamard twice"
    /\ FrameLen(mx.input) = 4
    /\ \A j, k \in DOMAIN mx.input : j # k => mx.input[j] # mx.input[k]
    /\ \A k \in DOMAIN mx.input : TransformHadamard(mx.input)[k] # mx.input[k]
    /\ mx.output = mx.input

----------------------------------------------------------------------------
(* The indices the Hadamard loops reach: claim C30 *)

\* c is a power of two, and the power it is
IsPow2(c) == \E k \in 0..c : Pow2(k) = c
Log2(c)   == CHOOSE k \in 0..c : Pow2(k) = c

\* the number of accesses of one pass that reach index k
PassTouches(accesses, k) ==
    Cardinality({<<q, h>> \in (1..Len(accesses)) \X {1, 2} : accesses[q][h] = k})

\* C30: on a power of two of channels, 1 included, the loops run exactly
\* log2(C) passes, every pass reaches every index exactly once, and every
\* index reached, i + j + stride included, is below C; with C = 1 no pass
\* runs and the transform returns the frame it was given; on a C that is
\* not a power of two an index at or beyond C is reached and the call
\* panics where it would have returned
C30_Loops ==
    mx.op = "hadamard loops" =>
        LET c == FrameLen(mx.input)
            r == mx.output
        IN  IF IsPow2(c)
            THEN /\ ~r.panic
                 /\ Len(r.passes) = Log2(c)
                 /\ \A p \in 1..Len(r.passes) :
                       /\ \A q \in 1..Len(r.passes[p]) :
                             /\ 0 <= r.passes[p][q][1]
                             /\ r.passes[p][q][2] = r.passes[p][q][1] + Pow2(p - 1)
                             /\ r.passes[p][q][2] < c
                       /\ \A k \in 0..(c - 1) : PassTouches(r.passes[p], k) = 1
                 /\ c = 1 => /\ r.samples = mx.input
                             /\ TransformHadamard(mx.input) = mx.input
            ELSE /\ r.panic
                 /\ LET last == r.passes[Len(r.passes)]
                    IN  /\ last[Len(last)][2] >= c
                        /\ \A q \in 1..(Len(last) - 1) : last[q][2] < c

\* C30, its case: the loops ran their four passes of eight pairs each on
\* sixteen channels and changed the frame
C30_Witness ==
    /\ mx.op = "hadamard loops"
    /\ FrameLen(mx.input) = 16
    /\ ~mx.output.panic
    /\ Len(mx.output.passes) = 4
    /\ \A p \in 1..4 : Len(mx.output.passes[p]) = 8
    /\ mx.output.samples # mx.input

=============================================================================
